---- MODULE Spec2Model ----
(***************************************************************************)
(* Model of the batch markdown-to-HTML converter (temp/convert.go).        *)
(*                                                                         *)
(* File names and paths are sequences of one-character strings, so that    *)
(* strings.HasSuffix, strings.TrimSuffix and filepath.Join are computed    *)
(* character by character.  The file system is a set of records            *)
(* [path, isDir]; the working directory "." is the set of paths without a  *)
(* separator.  The external tool (pandoc) and the operating system are the *)
(* environment: whether the directory can be listed, whether a directory   *)
(* can be created in it, and how each subprocess ends are nondeterministic.*)
(***************************************************************************)
EXTENDS Integers, Sequences, FiniteSets, TLC

\* ---------------------------------------------------------------- bounds
MaxEntries == 3     \* entries of the working directory at the start
MaxRuns    == 2     \* consecutive runs of the converter on the directory
MaxFailures == 2    \* subprocess failures the environment causes in all

\* ------------------------------------------------------- names and paths
Sep      == "/"
DotPath  == <<".">>
MdExt    == <<".", "m", "d">>
HtmlExt  == <<".", "h", "t", "m", "l">>
DashO    == <<"-", "o">>
Pandoc   == <<"p", "a", "n", "d", "o", "c">>
OutputDirName == <<"h", "t", "m", "l">>

N_a_md     == <<"a", ".", "m", "d">>
N_b_md     == <<"b", ".", "m", "d">>
N_a_md_md  == <<"a", ".", "m", "d", ".", "m", "d">>
N_dot_md   == <<".", "m", "d">>
N_X_MD     == <<"X", ".", "M", "D">>
N_bak      == <<"a", "r", "c", "h", "i", "v", "e", ".", "m", "d", ".", "b", "a", "k">>
N_notes    == <<"n", "o", "t", "e", "s", ".", "t", "x", "t">>
N_drafts   == <<"d", "r", "a", "f", "t", "s">>
P_drafts_c == <<"d", "r", "a", "f", "t", "s", "/", "c", ".", "m", "d">>
N_late     == <<"c", ".", "m", "d">>
P_html_old == <<"h", "t", "m", "l", "/", "o", "l", "d", ".", "h", "t", "m", "l">>

Entry(p, d) == [path |-> p, isDir |-> d]

\* Candidate entries of the working directory.
Pool ==
    { Entry(N_a_md, FALSE), Entry(N_b_md, FALSE), Entry(N_b_md, TRUE),
      Entry(N_a_md_md, FALSE), Entry(N_dot_md, FALSE), Entry(N_X_MD, FALSE),
      Entry(N_bak, FALSE), Entry(N_notes, FALSE), Entry(N_drafts, TRUE),
      Entry(OutputDirName, FALSE), Entry(OutputDirName, TRUE) }

\* Characters in byte order; the position of a character is its rank.
Alphabet ==
    << "-", ".", "/", "D", "M", "X", "a", "b", "c", "d", "e", "f", "h", "i",
       "k", "l", "m", "n", "o", "p", "r", "s", "t", "v", "x" >>

Code(c) == CHOOSE k \in 1..Len(Alphabet) : Alphabet[k] = c

\* strings.Compare(a, b) < 0 : byte-wise lexicographic order.
RECURSIVE Less(_, _)
Less(a, b) ==
    IF b = <<>> THEN FALSE
    ELSE IF a = <<>> THEN TRUE
    ELSE IF Head(a) = Head(b) THEN Less(Tail(a), Tail(b))
    ELSE Code(Head(a)) < Code(Head(b))

\* strings.HasSuffix(s, suffix)
HasSuffix(s, suffix) ==
    /\ Len(s) >= Len(suffix)
    /\ SubSeq(s, Len(s) - Len(suffix) + 1, Len(s)) = suffix

\* variant: every trailing occurrence of the suffix is removed
RECURSIVE TrimSuffixRepeated(_, _)
TrimSuffixRepeated(s, suffix) ==
    IF HasSuffix(s, suffix) /\ suffix # <<>>
    THEN TrimSuffixRepeated(SubSeq(s, 1, Len(s) - Len(suffix)), suffix)
    ELSE s

\* strings.TrimSuffix(s, suffix)
TrimSuffix(s, suffix) ==
    IF HasSuffix(s, suffix) THEN SubSeq(s, 1, Len(s) - Len(suffix)) ELSE s

HasSep(p) == \E k \in 1..Len(p) : p[k] = Sep

\* filepath.Clean on a name without separators: "" becomes ".", every
\* other such name is already its shortest form.
Clean(p) == IF p = <<>> THEN DotPath ELSE p

\* filepath.Join(dir, name) for separator-free, non-empty elements.
Join(dir, name) == Clean(dir \o <<Sep>> \o name)

\* ------------------------------------------------------------ file system
TopLevel(f) == { e \in f : ~HasSep(e.path) }

Exists(f, p)  == \E e \in f : e.path = p
IsDirAt(f, p) == \E e \in f : e.path = p /\ e.isDir

RECURSIVE SortByName(_)
SortByName(S) ==
    IF S = {} THEN <<>>
    ELSE LET m == CHOOSE x \in S : \A y \in S \ {x} : Less(x.path, y.path)
         IN  <<m>> \o SortByName(S \ {m})

\* variant: the listing is taken after the output directory has been made
ReadDirAfterEnsure(f) ==
    LET es == SortByName(TopLevel((f \ {Entry(OutputDirName, FALSE)})
                                  \cup {Entry(OutputDirName, TRUE)}))
    IN  [k \in 1..Len(es) |-> [name |-> es[k].path, isDir |-> es[k].isDir]]

\* os.ReadDir("."): the entries of the directory, sorted by file name.
ReadDir(f) ==
    LET es == SortByName(TopLevel(f))
    IN  [k \in 1..Len(es) |-> [name |-> es[k].path, isDir |-> es[k].isDir]]

\* variant: the directory is removed and made anew (os.RemoveAll, os.Mkdir)
MkdirAllRecreate(f, p, mayCreate) ==
    IF Exists(f, p) /\ ~IsDirAt(f, p) THEN [err |-> TRUE, fs |-> f]
    ELSE IF ~IsDirAt(f, p) /\ ~mayCreate THEN [err |-> TRUE, fs |-> f]
    ELSE [err |-> FALSE,
          fs |-> { e \in f : ~(HasSep(e.path) /\
                                SubSeq(e.path, 1, Len(p) + 1) = p \o <<Sep>>) }
                 \cup {Entry(p, TRUE)}]

\* variant: os.Mkdir, which fails when the path exists
MkdirPlain(f, p, mayCreate) ==
    IF Exists(f, p) \/ ~mayCreate THEN [err |-> TRUE, fs |-> f]
    ELSE [err |-> FALSE, fs |-> f \cup {Entry(p, TRUE)}]

\* os.MkdirAll(path, 0755) for a one-element path: nil when the path is
\* already a directory, an error when it is something else or cannot be
\* created, otherwise the directory is created.
MkdirAll(f, p, mayCreate) ==
    IF IsDirAt(f, p) THEN [err |-> FALSE, fs |-> f]
    ELSE IF Exists(f, p) \/ ~mayCreate THEN [err |-> TRUE, fs |-> f]
    ELSE [err |-> FALSE, fs |-> f \cup {Entry(p, TRUE)}]

\* ------------------------------------------------------------- converter
\* variants of the filter: without the suffix test, without the directory test
MatchesAnyFile(e) == ~e.isDir
MatchesAnyMd(e) == HasSuffix(e.name, MdExt)

\* variant of the filter: strings.Contains instead of strings.HasSuffix
MatchesContains(e) ==
    /\ ~e.isDir
    /\ \E k \in 1..(Len(e.name) - 2) : SubSeq(e.name, k, k + 2) = MdExt

\* the filter of the loop body
Matches(e) == ~e.isDir /\ HasSuffix(e.name, MdExt)

\* variant: the target extension is appended without trimming
OutputNameAppend(inputName) == inputName \o HtmlExt

OutputName(inputName) == TrimSuffix(inputName, MdExt) \o HtmlExt

\* variant: the output is written beside the source
DstBesideSource(inputName) == OutputName(inputName)

Src(inputName) == Clean(inputName)
Dst(inputName) == Join(OutputDirName, OutputName(inputName))

\* variant: the output flag and destination are passed before the source
CommandFlagFirst(inputName) ==
    [prog |-> Pandoc, argv |-> <<DashO, Dst(inputName), Src(inputName)>>]

\* exec.Command("pandoc", src, "-o", dst)
Command(inputName) ==
    [prog |-> Pandoc, argv |-> <<Src(inputName), DashO, Dst(inputName)>>]

\* variant: the wait never returns
WaitDoneNever(c) == FALSE

\* variant: cmd.Start, which does not wait
WaitDoneAlways(c) == TRUE

\* cmd.Run returns once the subprocess is no longer running
WaitDone(c) == c.state # "running"

\* variant: a failed conversion is tried again
NextIndexRetry(k, failed, n) == IF failed THEN k ELSE k + 1

\* variant: the loop is left at the first failure
NextIndexBreak(k, failed, n) == IF failed THEN n + 1 ELSE k + 1

\* the loop goes on with the next entry whatever cmd.Run returned
NextIndex(k, failed, n) == k + 1

\* variant: the range loop stops one entry early
LoopEndedEarly(k, n) == k >= n

\* the range loop of line 25 is over once every entry has been visited
LoopEnded(k, n) == k > n

\* variants: the return after the report is missing
AfterReadErrorFallThrough  == "mkdir"
AfterMkdirErrorFallThrough == "loop"

\* where control goes after a reported directory error
AfterReadError  == "exited"
AfterMkdirError == "exited"

\* variant: os.Exit(1) after a directory error
ExitStatusOnError(how) == IF how = "done" THEN 0 ELSE 1

\* main returns on every path, so the process exit status is 0
ExitStatus(how) == 0

Line(kind, a, b) == [kind |-> kind, a |-> a, b |-> b, err |-> "none"]

\* the error cmd.Run returns for a subprocess in the given state
RunError(state) ==
    CASE state = "nostart" -> "exec: executable file not found"
      [] state = "exit1"   -> "exit status 1"
      [] OTHER             -> "none"

\* line 36: input name, output name and the error
ErrorLine(inputName, state) ==
    [kind |-> "error", a |-> inputName, b |-> OutputName(inputName),
     err |-> RunError(state)]

\* variant: the name is printed inside the if, for matching entries only
EntryLinesIfMatching(e) ==
    IF Matches(e) THEN << Line("name", e.name, <<>>) >> ELSE << >>

\* line 26: the name of every entry is printed
EntryLines(e) == << Line("name", e.name, <<>>) >>

\* ---------------------------------------------------------------------
\* src/main.go: the demo server and its /health handler

\* connections served in one behaviour of the server
MaxRequests == 2

StatusOK == 200
Port == 8080
Addr == "localhost"
HealthPattern == "/health"
ContentType == "Content-Type"
TextPlain == "text/plain"
HealthBody == "200 OK. You are healthy.\n"

\* fmt.Sprintf("%d", n)
RECURSIVE Digits(_)
Digits(n) ==
    LET d == <<"0", "1", "2", "3", "4", "5", "6", "7", "8", "9">>
    IN  IF n < 10 THEN << d[n + 1] >>
        ELSE Append(Digits(n \div 10), d[(n % 10) + 1])

\* fmt.Sprintf("%s:%d", srv.addr, srv.port)
Address == <<Addr, ":">> \o Digits(Port)

Methods == {"GET", "HEAD", "POST"}
Paths == {"/health", "/"}
Bodies == {<<>>, <<"x">>}

\* the http.ResponseWriter handed to a handler: the header map, the header
\* as sent with the status line, the status lines sent, the calls of
\* WriteHeader that came too late, the body chunks written
NoHeader == [k \in {ContentType} |-> ""]

NewResponse ==
    [header |-> NoHeader, wroteHeader |-> FALSE, sent |-> NoHeader,
     statusLine |-> <<>>, superfluous |-> 0, body |-> <<>>]

HeaderSet(w, k, v) == [w EXCEPT !.header[k] = v]

WriteHeader(w, code) ==
    IF w.wroteHeader
    THEN [w EXCEPT !.superfluous = @ + 1]
    ELSE [w EXCEPT !.wroteHeader = TRUE, !.sent = w.header,
                   !.statusLine = Append(@, code)]

\* io.WriteString(w, data): the first write sends the status if the handler
\* has not, and a response without a content type gets a detected one;
\* failed is the case of a connection that no longer takes the bytes
WriteString(w, data, failed) ==
    LET w1 == WriteHeader(w, StatusOK)
        w2 == IF w.wroteHeader THEN w ELSE w1
        w3 == IF w2.sent[ContentType] = ""
              THEN [w2 EXCEPT !.sent[ContentType] = "text/plain; charset=utf-8"]
              ELSE w2
    IN  IF failed THEN w3 ELSE [w3 EXCEPT !.body = Append(@, data)]

\* variant: the status is written before the header is set
CheckHealthStatusFirst == <<"WriteHeader", "SetHeader", "WriteString", "Println">>

\* the statements of CheckHealth, in order
CheckHealth == <<"SetHeader", "WriteHeader", "WriteString", "Println">>

\* http.HandleFunc("/health", CheckHealth): a pattern without a trailing
\* slash matches that path only
MuxMatch(path) == path = HealthPattern

Returned == Len(CheckHealth) + 1

ServerLine(text, arg) == [text |-> text, arg |-> arg]

ServerOff == [state |-> "off", stdout |-> <<>>, conns |-> <<>>]

\* ---------------------------------------------------------------------
VARIABLES
    fs,          \* the file system: set of [path, isDir]
    canRead,     \* the working directory can be listed
    canCreate,   \* a directory can be created in the working directory
    pc,          \* position of main: readdir, mkdir, loop, wait, exited
    file,        \* the slice returned by os.ReadDir
    i,           \* index of the loop over file
    out,         \* lines written to standard output in this run
    calls,       \* subprocesses of this run, in order of creation
    produced,    \* [src, dst] written by subprocesses of this run
    readDirs,    \* paths this run has listed
    ret,         \* how this run ended: none, readerr, mkdirerr, done
    exitStatus,  \* <<>> while running, <<status>> once exited
    fsAtStart,   \* the file system when this run started
    runs,        \* summaries of the earlier runs
    failures,    \* subprocess failures so far (start failures, non-zero exits)
    srv          \* the demo server of src/main.go: state, stdout, connections

vars == << fs, canRead, canCreate, srv, pc, file, i, out, calls, produced,
           readDirs, ret, exitStatus, fsAtStart, runs, failures >>

\* files found below a directory chosen for the working directory
Below(T, pre) ==
    (IF Entry(N_drafts, TRUE) \in T THEN {Entry(P_drafts_c, FALSE)} ELSE {})
    \cup (IF Entry(OutputDirName, TRUE) \in T /\ pre
          THEN {Entry(P_html_old, FALSE)} ELSE {})

Init ==
    /\ \E T \in SUBSET Pool : \E pre \in BOOLEAN :
          /\ Cardinality(T) <= MaxEntries
          /\ \A x, y \in T : x.path = y.path => x = y
          /\ pre => Entry(OutputDirName, TRUE) \in T
          /\ fs = T \cup Below(T, pre)
    /\ canRead \in BOOLEAN
    /\ canCreate \in BOOLEAN
    \* creation plays no part when the output directory is already there
    /\ IsDirAt(fs, OutputDirName) => canCreate
    /\ pc = "readdir"
    /\ file = <<>>
    /\ i = 1
    /\ out = <<>>
    /\ calls = <<>>
    /\ produced = {}
    /\ readDirs = <<>>
    /\ ret = "none"
    /\ exitStatus = <<>>
    /\ fsAtStart = fs
    /\ runs = <<>>
    /\ failures = 0
    /\ srv = ServerOff

\* leaving main: the process exits when control reaches the end
Leave(target, how) ==
    /\ pc' = target
    /\ IF target = "exited"
       THEN ret' = how /\ exitStatus' = <<ExitStatus(how)>>
       ELSE UNCHANGED << ret, exitStatus >>

\* lines 13-17, listing succeeds
ReadDirOk ==
    /\ pc = "readdir"
    /\ canRead
    /\ file' = ReadDir(fs)
    /\ readDirs' = Append(readDirs, DotPath)
    /\ pc' = "mkdir"
    /\ UNCHANGED << fs, canRead, canCreate, srv, i, out, calls, produced, ret,
                    exitStatus, fsAtStart, runs, failures >>

\* lines 13-17, listing fails; os.ReadDir returns with the error the
\* entries it had read before it
ReadDirErr ==
    /\ pc = "readdir"
    /\ ~canRead
    /\ \E n \in 0..Len(ReadDir(fs)) : file' = SubSeq(ReadDir(fs), 1, n)
    /\ readDirs' = Append(readDirs, DotPath)
    /\ out' = Append(out, Line("readerr", <<>>, <<>>))
    /\ Leave(AfterReadError, "readerr")
    /\ UNCHANGED << fs, canRead, canCreate, srv, i, calls, produced,
                    fsAtStart, runs, failures >>

\* lines 19-23, the output directory is ensured
MkdirOk ==
    /\ pc = "mkdir"
    /\ LET r == MkdirAll(fs, OutputDirName, canCreate)
       IN  /\ ~r.err
           /\ fs' = r.fs
    /\ pc' = "loop"
    /\ i' = 1
    /\ UNCHANGED << canRead, canCreate, srv, file, out, calls, produced, readDirs,
                    ret, exitStatus, fsAtStart, runs, failures >>

\* lines 19-23, ensuring the output directory fails
MkdirErr ==
    /\ pc = "mkdir"
    /\ LET r == MkdirAll(fs, OutputDirName, canCreate)
       IN  /\ r.err
           /\ fs' = r.fs
    /\ out' = Append(out, Line("mkdirerr", <<>>, <<>>))
    /\ i' = 1
    /\ Leave(AfterMkdirError, "mkdirerr")
    /\ UNCHANGED << canRead, canCreate, srv, file, calls, produced, readDirs,
                    fsAtStart, runs, failures >>

\* lines 25-27, an entry the filter rejects
Skip ==
    /\ pc = "loop"
    /\ i <= Len(file)
    /\ ~Matches(file[i])
    /\ out' = out \o EntryLines(file[i])
    /\ i' = i + 1
    /\ UNCHANGED << fs, canRead, canCreate, srv, pc, file, calls, produced,
                    readDirs, ret, exitStatus, fsAtStart, runs, failures >>

NewCall(k, st) ==
    [cmd |-> Command(file[k].name), entry |-> k, state |-> st]

\* lines 25-35, the subprocess of a matching entry starts
Start ==
    /\ pc = "loop"
    /\ i <= Len(file)
    /\ Matches(file[i])
    /\ out' = out \o EntryLines(file[i])
    /\ calls' = Append(calls, NewCall(i, "running"))
    /\ pc' = "wait"
    /\ UNCHANGED << fs, canRead, canCreate, srv, file, i, produced, readDirs,
                    ret, exitStatus, fsAtStart, runs, failures >>

\* lines 25-36, the subprocess of a matching entry cannot be started
StartFail ==
    /\ pc = "loop"
    /\ i <= Len(file)
    /\ Matches(file[i])
    /\ out' = out \o EntryLines(file[i])
                  \o << ErrorLine(file[i].name, "nostart") >>
    /\ failures < MaxFailures
    /\ failures' = failures + 1
    /\ calls' = Append(calls, NewCall(i, "nostart"))
    /\ i' = NextIndex(i, TRUE, Len(file))
    /\ UNCHANGED << fs, canRead, canCreate, srv, pc, file, produced, readDirs,
                    ret, exitStatus, fsAtStart, runs >>

\* the external tool: a running subprocess ends, with status zero after
\* writing its destination, or with a non-zero status and nothing written
ToolExit ==
    \E k \in DOMAIN calls : \E st \in {"ok", "exit1"} :
        /\ calls[k].state = "running"
        /\ calls' = [calls EXCEPT ![k].state = st]
        /\ IF st = "ok"
           THEN /\ fs' = fs \cup {Entry(calls[k].cmd.argv[3], FALSE)}
                /\ produced' = produced \cup
                      {[src |-> calls[k].cmd.argv[1], dst |-> calls[k].cmd.argv[3]]}
                /\ UNCHANGED failures
           ELSE /\ failures < MaxFailures
                /\ failures' = failures + 1
                /\ UNCHANGED << fs, produced >>
        /\ UNCHANGED << canRead, canCreate, srv, pc, file, i, out, readDirs, ret,
                        exitStatus, fsAtStart, runs >>

\* lines 35-40, cmd.Run returns and the outcome is printed
Wait ==
    /\ pc = "wait"
    /\ LET c == calls[Len(calls)]
           inputName == file[i].name
       IN  /\ WaitDone(c)
           /\ IF c.state = "ok"
              THEN out' = Append(out, Line("converted", inputName, Dst(inputName)))
              ELSE out' = Append(out, ErrorLine(inputName, c.state))
           /\ i' = NextIndex(i, c.state # "ok", Len(file))
    /\ pc' = "loop"
    /\ UNCHANGED << fs, canRead, canCreate, srv, file, calls, produced, readDirs,
                    ret, exitStatus, fsAtStart, runs, failures >>

\* lines 44-45, after the loop
Done ==
    /\ pc = "loop"
    /\ LoopEnded(i, Len(file))
    /\ out' = Append(out, Line("done", <<>>, <<>>))
    /\ Leave("exited", "done")
    /\ UNCHANGED << fs, canRead, canCreate, srv, file, i, calls, produced,
                    readDirs, fsAtStart, runs, failures >>

\* the environment: a file appears in the working directory while the run
\* is between its listing and its end (the directory, the output directory
\* apart, holds at most MaxEntries entries)
Arrive ==
    /\ pc \in {"mkdir", "loop", "wait"}
    /\ ~Exists(fs, N_late)
    /\ Cardinality({ e \in TopLevel(fs) : e.path # OutputDirName }) < MaxEntries
    /\ fs' = fs \cup {Entry(N_late, FALSE)}
    /\ UNCHANGED << canRead, canCreate, srv, pc, file, i, out, calls, produced,
                    readDirs, ret, exitStatus, fsAtStart, runs, failures >>

Summary ==
    [ret |-> ret, out |-> out, calls |-> calls, produced |-> produced,
     file |-> file, exitStatus |-> exitStatus, fsStart |-> fsAtStart,
     fsEnd |-> fs]

\* the program is run again on the directory as the last run left it, its
\* entries being those the run started with, the output directory apart
Rerun ==
    /\ pc = "exited"
    /\ { e \in TopLevel(fs) : e.path # OutputDirName } =
          { e \in TopLevel(fsAtStart) : e.path # OutputDirName }
    /\ Len(runs) + 1 < MaxRuns
    /\ \A k \in DOMAIN calls : calls[k].state # "running"
    /\ runs' = Append(runs, Summary)
    /\ pc' = "readdir"
    /\ file' = <<>>
    /\ i' = 1
    /\ out' = <<>>
    /\ calls' = <<>>
    /\ produced' = {}
    /\ readDirs' = <<>>
    /\ ret' = "none"
    /\ exitStatus' = <<>>
    /\ fsAtStart' = fs
    /\ UNCHANGED << fs, canRead, canCreate, srv, failures >>

Next ==
    \/ ReadDirOk
    \/ ReadDirErr
    \/ MkdirOk
    \/ MkdirErr
    \/ Skip
    \/ Start
    \/ StartFail
    \/ ToolExit
    \/ Wait
    \/ Done
    \/ Arrive
    \/ Rerun

Spec == Init /\ [][Next]_vars

\* the steps of main
ProgramNext ==
    \/ ReadDirOk \/ ReadDirErr \/ MkdirOk \/ MkdirErr
    \/ Skip \/ Start \/ StartFail \/ Wait \/ Done

\* the scheduling under which a run ends: the process keeps running while
\* it can take a step, and every subprocess of the external tool ends
FairSpec == Spec /\ WF_vars(ProgramNext) /\ WF_vars(ToolExit)

\* ---------------------------------------------------------------------
\* src/main.go: main and the handler goroutines

convVars == << fs, canRead, canCreate, pc, file, i, out, calls, produced,
               readDirs, ret, exitStatus, fsAtStart, runs, failures >>

HealthInit ==
    /\ fs = {}
    /\ canRead = TRUE
    /\ canCreate = TRUE
    /\ pc = "readdir"
    /\ file = <<>>
    /\ i = 1
    /\ out = <<>>
    /\ calls = <<>>
    /\ produced = {}
    /\ readDirs = <<>>
    /\ ret = "none"
    /\ exitStatus = <<>>
    /\ fsAtStart = fs
    /\ runs = <<>>
    /\ failures = 0
    /\ srv = [ServerOff EXCEPT !.state = "main"]

\* lines 27-34: the handler is registered and the address printed
Announce ==
    /\ srv.state = "main"
    /\ srv' = [srv EXCEPT !.state = "binding",
                          !.stdout = Append(@, ServerLine("Starting server at", Address))]
    /\ UNCHANGED convVars

\* line 35: http.ListenAndServe binds the address and serves
ListenOk ==
    /\ srv.state = "binding"
    /\ srv' = [srv EXCEPT !.state = "serving"]
    /\ UNCHANGED convVars

\* lines 35-37: http.ListenAndServe returns an error
ListenErr ==
    /\ srv.state = "binding"
    /\ srv' = [srv EXCEPT !.state = "exited",
                          !.stdout = Append(@, ServerLine("Error starting server:",
                                                          <<"listen: address in use">>))]
    /\ UNCHANGED convVars

\* a request arrives; the server starts a goroutine for it
Accept ==
    /\ srv.state = "serving"
    /\ Len(srv.conns) < MaxRequests
    /\ \E m \in Methods : \E p \in Paths : \E b \in Bodies :
          srv' = [srv EXCEPT !.conns = Append(@,
                     [method |-> m, path |-> p, body |-> b, pc |-> 0,
                      handler |-> "none", w |-> NewResponse, err |-> "none"])]
    /\ UNCHANGED convVars

\* line 30: the default mux hands the request to CheckHealth
Dispatch(c) ==
    /\ srv.conns[c].pc = 0
    /\ MuxMatch(srv.conns[c].path)
    /\ srv' = [srv EXCEPT !.conns[c].pc = 1, !.conns[c].handler = "CheckHealth"]
    /\ UNCHANGED convVars

\* line 30: no pattern matches, the mux answers itself
NotFound(c) ==
    /\ srv.conns[c].pc = 0
    /\ ~MuxMatch(srv.conns[c].path)
    /\ srv' = [srv EXCEPT !.conns[c].pc = Returned,
                          !.conns[c].handler = "NotFound",
                          !.conns[c].w = WriteString(WriteHeader(@, 404),
                                                     "404 page not found\n", FALSE)]
    /\ UNCHANGED convVars

At(c, stmt) ==
    /\ srv.conns[c].pc \in 1..Len(CheckHealth)
    /\ CheckHealth[srv.conns[c].pc] = stmt

\* line 15
SetHeader(c) ==
    /\ At(c, "SetHeader")
    /\ srv' = [srv EXCEPT !.conns[c].pc = @ + 1,
                          !.conns[c].w = HeaderSet(@, ContentType, TextPlain)]
    /\ UNCHANGED convVars

\* line 16
WriteStatus(c) ==
    /\ At(c, "WriteHeader")
    /\ srv' = [srv EXCEPT !.conns[c].pc = @ + 1,
                          !.conns[c].w = WriteHeader(@, StatusOK)]
    /\ UNCHANGED convVars

\* line 17, the write succeeds
WriteBodyOk(c) ==
    /\ At(c, "WriteString")
    /\ srv' = [srv EXCEPT !.conns[c].pc = @ + 1,
                          !.conns[c].w = WriteString(@, HealthBody, FALSE)]
    /\ UNCHANGED convVars

\* line 17, the write fails
WriteBodyErr(c) ==
    /\ At(c, "WriteString")
    /\ srv' = [srv EXCEPT !.conns[c].pc = @ + 1,
                          !.conns[c].err = "write: broken pipe",
                          !.conns[c].w = WriteString(@, HealthBody, TRUE)]
    /\ UNCHANGED convVars

\* lines 18-22
LogOutcome(c) ==
    /\ At(c, "Println")
    /\ srv' = [srv EXCEPT
                 !.conns[c].pc = @ + 1,
                 !.stdout = Append(@,
                     IF srv.conns[c].err # "none"
                     THEN ServerLine("Error writing response:", <<srv.conns[c].err>>)
                     ELSE ServerLine("Health check responded with OK", <<>>))]
    /\ UNCHANGED convVars

HealthNext ==
    \/ Announce
    \/ ListenOk
    \/ ListenErr
    \/ Accept
    \/ \E c \in DOMAIN srv.conns :
          \/ Dispatch(c)
          \/ NotFound(c)
          \/ SetHeader(c)
          \/ WriteStatus(c)
          \/ WriteBodyOk(c)
          \/ WriteBodyErr(c)
          \/ LogOutcome(c)

HealthSpec == HealthInit /\ [][HealthNext]_vars

TypeOK ==
    /\ pc \in {"readdir", "mkdir", "loop", "wait", "exited"}
    /\ ret \in {"none", "readerr", "mkdirerr", "done"}
    /\ i \in 1..(Len(file) + 1)
    /\ Len(runs) < MaxRuns
    /\ failures \in 0..MaxFailures

\* ------------------------------------------------------------ properties
\* Vocabulary of the properties, written without the converter's operators.
EndsInMd(n) ==
    /\ Len(n) >= 3
    /\ n[Len(n) - 2] = "." /\ n[Len(n) - 1] = "m" /\ n[Len(n)] = "d"

Stem(n) == [k \in 1..(Len(n) - 3) |-> n[k]]

ExpectedDst(n) ==
    <<"h", "t", "m", "l", "/">> \o Stem(n) \o <<".", "h", "t", "m", "l">>

SourceFiles(f) == { e \in TopLevel(f) : ~e.isDir }

OnlyMdFiles(f) == \A e \in SourceFiles(f) : EndsInMd(e.path)

AllInvocationsSucceed == \A k \in DOMAIN calls : calls[k].state = "ok"

OnePerSource ==
    produced = { [src |-> e.path, dst |-> ExpectedDst(e.path)] :
                 e \in SourceFiles(fsAtStart) }

HasLine(kind) == \E k \in DOMAIN out : out[k].kind = kind

InFlight == { k \in DOMAIN calls : calls[k].state = "running" }

CallsOf(k) == { c \in DOMAIN calls : calls[c].entry = k }

\* C1 as stated: whenever a run has ended on a directory whose files all
\* end in ".md" and every tool invocation succeeded, the files produced are
\* exactly html/<stem>.html, one for each source file.
C1_AsStated ==
    (pc = "exited" /\ OnlyMdFiles(fsAtStart) /\ AllInvocationsSucceed)
        => OnePerSource

\* C1 (amended): the same, for a run in which the directory was listed and
\* the output directory was ensured (the run reached its completion notice).
C1_OnePerSource ==
    (pc = "exited" /\ ret = "done" /\ OnlyMdFiles(fsAtStart)
        /\ AllInvocationsSucceed)
        => OnePerSource

C1_Witness ==
    /\ pc = "exited" /\ ret = "done"
    /\ OnlyMdFiles(fsAtStart) /\ AllInvocationsSucceed
    /\ Cardinality(SourceFiles(fsAtStart)) >= 2
    /\ Cardinality(produced) >= 2
    /\ \E e \in TopLevel(fsAtStart) : e.isDir

\* C2: an enumerated entry whose name does not end in ".md" is never the
\* source of a tool invocation, and no produced file comes from it.
C2_NonMdNeverConverted ==
    /\ \A k \in DOMAIN file : ~EndsInMd(file[k].name) =>
          /\ CallsOf(k) = {}
          /\ \A c \in DOMAIN calls : calls[c].cmd.argv[1] # file[k].name
          /\ \A p \in produced : p.src # file[k].name
    /\ \A p \in produced : EndsInMd(p.src)

C2_Witness ==
    /\ pc = "exited" /\ ret = "done"
    /\ \E k \in DOMAIN file : file[k].name = N_notes
    /\ \E k \in DOMAIN file : file[k].name = N_drafts
    /\ \E p \in produced : p.src = N_a_md

\* C3: an enumerated directory is never passed to the tool, nothing but the
\* working directory is ever listed, nothing below a directory is passed to
\* the tool, and a directory yields no output, whatever its name.
C3_DirectoriesSkipped ==
    /\ \A k \in DOMAIN file : file[k].isDir =>
          /\ CallsOf(k) = {}
          /\ \A c \in DOMAIN calls : calls[c].cmd.argv[1] # file[k].name
          /\ \A p \in produced : p.src # file[k].name
    /\ \A k \in DOMAIN readDirs : readDirs[k] = <<".">>
    /\ Len(readDirs) <= 1
    /\ \A c \in DOMAIN calls : ~HasSep(calls[c].cmd.argv[1])

C3_Witness ==
    /\ pc = "exited" /\ ret = "done"
    /\ \E k \in DOMAIN file : file[k].isDir /\ EndsInMd(file[k].name)
    /\ Exists(fs, P_drafts_c)
    /\ produced # {}

\* C4: in a run that reached its end, every matching entry has had exactly
\* one invocation, whatever happened to the entries before it, and the line
\* printed for it reports the result of its own invocation.
C4_FailureIsolated ==
    (pc = "exited" /\ ret = "done") =>
        \A k \in DOMAIN file :
            (~file[k].isDir /\ EndsInMd(file[k].name)) =>
                /\ Cardinality(CallsOf(k)) = 1
                /\ \A c \in CallsOf(k) :
                      /\ calls[c].state # "running"
                      /\ (calls[c].state = "ok") <=>
                            (\E l \in DOMAIN out :
                                out[l] = Line("converted", file[k].name,
                                              ExpectedDst(file[k].name)))
                      /\ (calls[c].state # "ok") <=>
                            (\E l \in DOMAIN out :
                                /\ out[l].kind = "error"
                                /\ out[l].a = file[k].name)

C4_Witness ==
    /\ pc = "exited" /\ ret = "done"
    /\ Len(calls) = 3
    /\ calls[1].state = "nostart"
    /\ calls[2].state = "exit1"
    /\ calls[3].state = "ok"

\* C5: once the listing error has been reported the run is over: the file
\* system is as it was at the start (no html directory was created), no
\* subprocess was created, and nothing else was printed.
C5_ReadErrorAborts ==
    HasLine("readerr") =>
        /\ pc = "exited"
        /\ fs = fsAtStart
        /\ calls = <<>>
        /\ out = << Line("readerr", <<>>, <<>>) >>

C5_Witness ==
    /\ ret = "readerr"
    /\ ~Exists(fs, OutputDirName)
    /\ canCreate
    /\ \E e \in SourceFiles(fs) : EndsInMd(e.path)

\* C6: once the output directory error has been reported the run is over:
\* no subprocess was created, not even for matching entries of the listing,
\* and there is no per-file line and no completion line.
C6_MkdirErrorAborts ==
    HasLine("mkdirerr") =>
        /\ pc = "exited"
        /\ calls = <<>>
        /\ produced = {}
        /\ out = << Line("mkdirerr", <<>>, <<>>) >>

C6_Witness ==
    /\ ret = "mkdirerr"
    /\ Entry(OutputDirName, FALSE) \in fs
    /\ \E k \in DOMAIN file : ~file[k].isDir /\ EndsInMd(file[k].name)

\* the ensure step (the step that leaves "mkdir") on an existing output
\* directory: it goes on to the loop and leaves the file system as it is
EnsureKeepsExisting ==
    (pc = "mkdir" /\ pc' # "mkdir" /\ IsDirAt(fs, OutputDirName))
        => (pc' = "loop" /\ fs' = fs)

\* C7 as stated: after any run that started without the output directory
\* the directory exists, and ensuring an existing one changes nothing.
C7_AsStated ==
    /\ []((pc = "exited" /\ ~IsDirAt(fsAtStart, OutputDirName))
             => IsDirAt(fs, OutputDirName))
    /\ [][EnsureKeepsExisting]_vars

\* C7 (amended): after a run that was not aborted by a directory error and
\* started without the output directory, the directory exists; and ensuring
\* an existing output directory does not fail and changes nothing.
C7_EnsureOutputDir ==
    /\ []((pc = "exited" /\ ret = "done" /\ ~IsDirAt(fsAtStart, OutputDirName))
             => IsDirAt(fs, OutputDirName))
    /\ [][EnsureKeepsExisting]_vars

C7_Witness ==
    /\ Len(runs) = 1
    /\ ~Exists(runs[1].fsStart, OutputDirName)
    /\ runs[1].ret = "done"
    /\ IsDirAt(runs[1].fsEnd, OutputDirName)
    /\ \E e \in fsAtStart : HasSep(e.path) /\ HasSuffix(e.path, HtmlExt)
    /\ pc = "loop" /\ i = 1
    /\ fs = fsAtStart

DestinationFiles(f) ==
    { e \in f : HasSep(e.path) /\ SubSeq(e.path, 1, 5) = <<"h", "t", "m", "l", "/">> }

\* the tool behaved in this run as it did in the run before
SameToolBehaviour(prev) ==
    \A c \in DOMAIN prev.calls : \A d \in DOMAIN calls :
        prev.calls[c].cmd = calls[d].cmd => prev.calls[c].state = calls[d].state

\* C8: a second run with the same tool behaviour produces the same
\* destination files as the first and leaves the same files in html; an html
\* directory the first run created is listed by the second run as a
\* directory and never passed to the tool.
C8_RerunIdempotent ==
    Len(runs) >= 1 =>
        LET prev == runs[Len(runs)]
        IN  /\ (pc = "exited" /\ SameToolBehaviour(prev)) =>
                  /\ produced = prev.produced
                  /\ DestinationFiles(fs) = DestinationFiles(prev.fsEnd)
                  /\ ret = prev.ret
            /\ (pc # "readdir" /\ ret # "readerr"
                   /\ ~Exists(prev.fsStart, OutputDirName)
                   /\ IsDirAt(prev.fsEnd, OutputDirName)) =>
                  /\ \E k \in DOMAIN file :
                        file[k] = [name |-> OutputDirName, isDir |-> TRUE]
                  /\ \A c \in DOMAIN calls :
                        calls[c].cmd.argv[1] # OutputDirName

C8_Witness ==
    /\ Len(runs) = 1
    /\ pc = "exited" /\ ret = "done"
    /\ SameToolBehaviour(runs[1])
    /\ ~Exists(runs[1].fsStart, OutputDirName)
    /\ Cardinality(produced) >= 2
    /\ \E c \in DOMAIN calls : calls[c].state # "ok"

\* C9: at most one subprocess is in flight, every subprocess but the latest
\* has completed, and the invocations made so far are those of the matching
\* entries already reached, in the order of the listing.
C9_Sequential ==
    /\ Cardinality(InFlight) <= 1
    /\ \A c \in DOMAIN calls : c < Len(calls) => calls[c].state # "running"
    /\ \A c, d \in DOMAIN calls : c < d => calls[c].entry < calls[d].entry
    /\ \A k \in DOMAIN file :
          (~file[k].isDir /\ EndsInMd(file[k].name)) =>
              ((CallsOf(k) # {}) <=> (k < i \/ (k = i /\ pc = "wait")))
    /\ \A c \in DOMAIN calls :
          calls[c].cmd.argv[1] = file[calls[c].entry].name

C9_Witness ==
    /\ pc = "wait"
    /\ Len(calls) = 2
    /\ calls[1].state = "exit1"
    /\ calls[2].state = "running"
    /\ calls[1].entry + 1 < calls[2].entry

\* C10: however a run ends, the exit status of the process is zero.
C10_ExitZero ==
    /\ (pc = "exited") => (exitStatus = <<0>>)
    /\ (ret # "none") => (pc = "exited")
    /\ \A r \in DOMAIN runs : runs[r].exitStatus = <<0>>

C10_Witness ==
    /\ pc = "exited" /\ ret = "done"
    /\ Len(calls) >= 2
    /\ \A c \in DOMAIN calls : calls[c].state \in {"exit1", "nostart"}
    /\ Len(runs) = 1
    /\ exitStatus = <<0>>
\* C11: an entry the loop has passed was given to the tool if and only if
\* it is not a directory and its name ends in the exact characters ".md";
\* archive.md.bak and X.MD are never sources, and the entry named ".md" is
\* converted to html/.html.
C11_LiteralSuffixFilter ==
    /\ \A k \in DOMAIN file :
          (pc \in {"loop", "wait", "exited"} /\ ret \notin {"readerr", "mkdirerr"}
              /\ (k < i \/ (k = i /\ pc = "wait"))) =>
              ((CallsOf(k) # {}) <=> (~file[k].isDir /\ EndsInMd(file[k].name)))
    /\ \A c \in DOMAIN calls :
          /\ calls[c].cmd.argv[1] # N_bak
          /\ calls[c].cmd.argv[1] # N_X_MD
          /\ calls[c].cmd.argv[1] = <<".", "m", "d">> =>
                calls[c].cmd.argv[3] =
                    <<"h", "t", "m", "l", "/", ".", "h", "t", "m", "l">>

C11_Witness ==
    /\ pc = "exited" /\ ret = "done"
    /\ \E k \in DOMAIN file : file[k].name = N_bak
    /\ \E k \in DOMAIN file : file[k].name = N_X_MD
    /\ \E c \in DOMAIN calls :
          /\ calls[c].cmd.argv[1] = N_dot_md
          /\ calls[c].state = "ok"
    /\ Entry(<<"h", "t", "m", "l", "/", ".", "h", "t", "m", "l">>, FALSE) \in fs
\* C12: every invocation runs the tool with exactly three arguments: the
\* name of its entry, then "-o", then html/<name with its final ".md"
\* replaced once by ".html">.
C12_ArgumentList ==
    \A c \in DOMAIN calls :
        LET n == file[calls[c].entry].name
        IN  /\ calls[c].cmd.prog = <<"p", "a", "n", "d", "o", "c">>
            /\ Len(calls[c].cmd.argv) = 3
            /\ calls[c].cmd.argv[1] = n
            /\ calls[c].cmd.argv[2] = <<"-", "o">>
            /\ calls[c].cmd.argv[3] = ExpectedDst(n)

C12_Witness ==
    \E c \in DOMAIN calls :
        /\ calls[c].cmd.argv[1] = <<"a", ".", "m", "d", ".", "m", "d">>
        /\ calls[c].cmd.argv[3] =
              <<"h", "t", "m", "l", "/", "a", ".", "m", "d", ".", "h", "t", "m", "l">>
        /\ calls[c].state = "ok"
LinesOf(kinds, n) ==
    { l \in DOMAIN out : out[l].kind \in kinds /\ out[l].a = n }

MatchingEntries ==
    { k \in DOMAIN file : ~file[k].isDir /\ EndsInMd(file[k].name) }

\* C13 as stated: a run that passed both directory steps has printed one
\* line for each enumerated entry and the completion line, nothing else.
C13_AsStated ==
    (pc = "exited" /\ ret = "done") => Len(out) = Len(file) + 1

\* C13 (amended): such a run has printed one name line for each enumerated
\* entry, one further outcome line (success or error) for each matching
\* entry, and the completion line, nothing else.
C13_LogLines ==
    (pc = "exited" /\ ret = "done") =>
        /\ Len(out) = Len(file) + Cardinality(MatchingEntries) + 1
        /\ \A k \in DOMAIN file :
              /\ Cardinality(LinesOf({"name"}, file[k].name)) = 1
              /\ Cardinality(LinesOf({"converted", "error"}, file[k].name)) =
                    (IF k \in MatchingEntries THEN 1 ELSE 0)
        /\ Cardinality({ l \in DOMAIN out : out[l].kind = "done" }) = 1
        /\ \A l \in DOMAIN out :
              out[l].kind \in {"name", "converted", "error", "done"}

C13_Witness ==
    /\ pc = "exited" /\ ret = "done"
    /\ Len(file) = 3
    /\ Cardinality(MatchingEntries) = 2
    /\ Len(out) = 6
\* C14: the completion line is printed only when every enumerated entry
\* has been visited and every subprocess has completed, it is printed once
\* and is the last line; a run that passed both directory steps ends with
\* it, whether or not conversions failed.
C14_CompletionLast ==
    /\ HasLine("done") =>
          /\ pc = "exited" /\ ret = "done"
          /\ Cardinality({ l \in DOMAIN out : out[l].kind = "done" }) = 1
          /\ out[Len(out)].kind = "done"
          /\ i = Len(file) + 1
          /\ InFlight = {}
          /\ \A k \in DOMAIN file : LinesOf({"name"}, file[k].name) # {}
          /\ \A k \in MatchingEntries :
                \E c \in CallsOf(k) : calls[c].state \in {"ok", "exit1", "nostart"}
    /\ (pc = "exited" /\ ~HasLine("readerr") /\ ~HasLine("mkdirerr")) =>
          HasLine("done")

C14_Witness ==
    /\ pc = "exited" /\ ret = "done"
    /\ Len(file) = 3
    /\ \E c \in DOMAIN calls : calls[c].state = "exit1"
    /\ calls[Len(calls)].state = "ok"
    /\ ~Matches(file[3])
    /\ out[Len(out)].kind = "done"
\* C15: no entry is ever given to the tool twice in a run; when the run is
\* over each matching entry has one invocation and one outcome line, which
\* is the success notice exactly when the subprocess started and exited
\* with status zero, and otherwise the error line with the source name, the
\* destination name and the error of the invocation.
C15_OnceWithOneOutcome ==
    /\ \A k \in DOMAIN file : Cardinality(CallsOf(k)) <= 1
    /\ (pc = "exited" /\ ret = "done") =>
          \A k \in MatchingEntries :
              LET n == file[k].name
              IN  /\ Cardinality(CallsOf(k)) = 1
                  /\ Cardinality(LinesOf({"converted", "error"}, n)) = 1
                  /\ \A c \in CallsOf(k) : \A l \in LinesOf({"converted", "error"}, n) :
                        /\ (calls[c].state = "ok") <=> (out[l].kind = "converted")
                        /\ out[l].kind = "converted" =>
                              /\ out[l].b = ExpectedDst(n)
                              /\ out[l].err = "none"
                        /\ out[l].kind = "error" =>
                              /\ out[l].b = Stem(n) \o <<".", "h", "t", "m", "l">>
                              /\ (calls[c].state = "exit1") <=>
                                    (out[l].err = "exit status 1")
                              /\ (calls[c].state = "nostart") <=>
                                    (out[l].err = "exec: executable file not found")

C15_Witness ==
    /\ pc = "exited" /\ ret = "done"
    /\ Len(calls) = 3
    /\ calls[1].state = "exit1"
    /\ calls[2].state = "ok"
    /\ calls[3].state = "nostart"
    /\ Len(out) = 7
\* C16: two distinct matching entries of a listing have distinct
\* destination paths, two invocations of a run never have the same
\* destination, and so no file produced in a run was written twice.
C16_DestinationsDistinct ==
    /\ \A k, l \in MatchingEntries :
          k # l => Dst(file[k].name) # Dst(file[l].name)
    /\ \A c, d \in DOMAIN calls :
          c # d => calls[c].cmd.argv[3] # calls[d].cmd.argv[3]
    /\ \A p, q \in produced : p.dst = q.dst => p.src = q.src

C16_Witness ==
    /\ pc = "exited" /\ ret = "done"
    /\ \E p, q \in produced :
          /\ p.src = <<"a", ".", "m", "d">>
          /\ q.src = <<"a", ".", "m", "d", ".", "m", "d">>
          /\ p.dst # q.dst
    /\ Cardinality(produced) = 3
Listed == pc \in {"mkdir", "loop", "wait"} \/ (pc = "exited" /\ ret # "readerr")

\* C17: once the listing has been taken, the entries of the run are those
\* the working directory held when the run started, the directory is
\* listed once, and whatever appears afterwards (the html directory made
\* by this run, the files written under it, a file that arrives later) is
\* neither printed nor given to the tool in this run.
C17_ListingFixed ==
    LET top == TopLevel(fsAtStart)
        names == { e.path : e \in top }
        later == { e.path : e \in fs \ fsAtStart }
    IN  /\ Listed =>
              /\ { file[k] : k \in DOMAIN file } =
                    { [name |-> e.path, isDir |-> e.isDir] : e \in top }
              /\ Len(file) = Cardinality(top)
              /\ Len(readDirs) = 1
        /\ \A c \in DOMAIN calls :
              /\ calls[c].cmd.argv[1] \in names
              /\ calls[c].cmd.argv[1] \notin later
              /\ ~HasSep(calls[c].cmd.argv[1])
        /\ \A l \in DOMAIN out :
              out[l].kind \in {"name", "converted", "error"} => out[l].a \in names
        /\ \A p \in produced : p.src \notin later

C17_Witness ==
    /\ pc = "exited" /\ ret = "done"
    /\ Entry(<<"c", ".", "m", "d">>, FALSE) \in fs \ fsAtStart
    /\ Entry(OutputDirName, TRUE) \in fs \ fsAtStart
    /\ \E p \in produced : Entry(p.dst, FALSE) \in fs \ fsAtStart
    /\ Len(calls) = 2
\* while a subprocess is in flight main stays where it is: no later entry
\* is visited, nothing is printed and no subprocess is created
BlockedWhileRunning ==
    (pc = "wait" /\ InFlight # {}) =>
        (pc' = "wait" /\ i' = i /\ out' = out /\ Len(calls') = Len(calls))

\* what is left of the run: two units for each entry not yet visited, one
\* less while its subprocess is awaited, and the two directory steps
Remaining ==
    CASE pc = "readdir" -> 2 * Cardinality(TopLevel(fsAtStart)) + 3
      [] pc = "mkdir"   -> 2 * Cardinality(TopLevel(fsAtStart)) + 2
      [] pc = "loop"    -> 2 * (Len(file) - i + 1) + 1
      [] pc = "wait"    -> 2 * (Len(file) - i + 1)
      [] OTHER          -> 0

\* a step within a run: every step of main decreases what is left, and a
\* step of the environment leaves it as it is
StepDecreases ==
    (pc # "exited") =>
        IF pc' # pc \/ i' # i \/ out' # out \/ Len(calls') # Len(calls)
        THEN Remaining' < Remaining
        ELSE Remaining' = Remaining

\* a run that has not exited can move: in the loop main has a step, and
\* where it waits either cmd.Run can return or the subprocess is in flight
\* and can end (each directory step has a success and a failure branch
\* with complementary conditions)
NotStuck ==
    /\ pc = "loop" => ENABLED (Skip \/ Start \/ Done)
    /\ pc = "wait" => \/ ENABLED Wait
                      \/ (InFlight # {} /\ ENABLED ToolExit)

\* C18: every run terminates provided each subprocess ends: a run that has
\* not exited is never stuck, what is left of it is never negative and
\* every step of main decreases it (each entry is visited once, then the
\* completion notice); and while a subprocess has not ended the run does
\* not move, so no later entry is processed.
C18_Terminates ==
    /\ [](NotStuck /\ Remaining >= 0)
    /\ [][StepDecreases]_vars
    /\ [][BlockedWhileRunning]_vars

C18_Witness ==
    /\ pc = "wait" /\ InFlight # {}
    /\ i < Len(file)
    /\ \E k \in MatchingEntries : k > i
    /\ Len(runs) = 1
\* a step of main (not of the tool or of the rest of the environment)
MainStep == pc' # pc \/ i' # i \/ out' # out \/ Len(calls') # Len(calls)

\* no step removes or changes an entry, and a step of main leaves the file
\* system as it is unless it is the ensure step creating html
FrameStep ==
    /\ fs \subseteq fs'
    /\ \A e \in fs : \A d \in fs' : e.path = d.path => e = d
    /\ MainStep =>
          \/ fs' = fs
          \/ /\ pc = "mkdir" /\ pc' = "loop"
             /\ ~Exists(fs, OutputDirName)
             /\ fs' = fs \cup {Entry(OutputDirName, TRUE)}

DirectlyInsideHtml(p) ==
    /\ Len(p) > 5
    /\ SubSeq(p, 1, 5) = <<"h", "t", "m", "l", "/">>
    /\ \A k \in 6..Len(p) : p[k] # "/"

\* C19: every destination handed to the tool lies directly inside html; no
\* step of main deletes, renames or modifies an entry, the only thing main
\* adds is the html directory; in particular after a failed conversion the
\* sources and the destinations written so far are all still there.
C19_Frame ==
    /\ [](/\ \A c \in DOMAIN calls : DirectlyInsideHtml(calls[c].cmd.argv[3])
          /\ fsAtStart \subseteq fs
          /\ \A p \in produced : Entry(p.dst, FALSE) \in fs)
    /\ [][FrameStep]_vars

C19_Witness ==
    /\ pc = "exited" /\ ret = "done"
    /\ Len(calls) = 2
    /\ calls[1].state = "exit1"
    /\ calls[2].state = "ok"
    /\ Entry(P_html_old, FALSE) \in fsAtStart
    /\ Entry(P_html_old, FALSE) \in fs
    /\ Cardinality(produced) = 1
\* the connections whose request is for /health
HealthConns == { c \in DOMAIN srv.conns : srv.conns[c].path = "/health" }

LinesWith(text) == { k \in DOMAIN srv.stdout : srv.stdout[k].text = text }

HealthResponseOK(c) ==
    LET w == c.w
        body == <<"200 OK. You are healthy.\n">>
    IN  /\ c.handler # "NotFound"
        \* the status is 200, written once, with the content type set before
        /\ w.superfluous = 0
        /\ w.wroteHeader <=> w.statusLine # <<>>
        /\ w.wroteHeader =>
              w.statusLine = <<200>> /\ w.sent["Content-Type"] = "text/plain"
        \* the body comes after the status and is the fixed one
        /\ w.body # <<>> => (w.wroteHeader /\ w.body = body)
        \* the handler returns in either case, the status as it was sent
        /\ c.pc = Returned =>
              /\ w.statusLine = <<200>>
              /\ w.body = (IF c.err = "none" THEN body ELSE <<>>)

StatusStays ==
    \A c \in DOMAIN srv.conns :
        srv.conns[c].w.wroteHeader =>
            /\ srv'.conns[c].w.statusLine = srv.conns[c].w.statusLine
            /\ srv'.conns[c].w.sent = srv.conns[c].w.sent

\* C20: for every request to /health, whatever its method and body, the
\* handler sets Content-Type to text/plain before the status is written,
\* writes status 200 exactly once and then the fixed body; a failed write
\* of the body is logged, one line for each, and the status sent stays.
C20_HealthHandler ==
    /\ [](/\ \A c \in HealthConns : HealthResponseOK(srv.conns[c])
          /\ Cardinality(LinesWith("Error writing response:")) =
                Cardinality({ c \in HealthConns :
                                /\ srv.conns[c].pc = Returned
                                /\ srv.conns[c].err # "none" })
          /\ Cardinality(LinesWith("Health check responded with OK")) =
                Cardinality({ c \in HealthConns :
                                /\ srv.conns[c].pc = Returned
                                /\ srv.conns[c].err = "none" }))
    /\ [][StatusStays]_vars

C20_Witness ==
    /\ Len(srv.conns) = 2
    /\ srv.conns[1].path = "/health" /\ srv.conns[1].method = "POST"
    /\ srv.conns[1].body # <<>>
    /\ srv.conns[1].pc = Returned /\ srv.conns[1].err # "none"
    /\ srv.conns[1].w.statusLine = <<200>>
    /\ srv.conns[2].path = "/health" /\ srv.conns[2].method = "HEAD"
    /\ srv.conns[2].pc = Returned /\ srv.conns[2].err = "none"
====
